---------------------------- MODULE Spec2Model ----------------------------
(***************************************************************************)
(* Model of the /ask request pipeline of the farm-advisory backend:        *)
(*   backend/app/routers/chat_bot.py  (ask_question, clean_text)           *)
(*   backend/common/models/db.py      (get_db, the request-scoped session) *)
(*                                                                         *)
(* Python strings are sequences of tokens.  A token is usually a single    *)
(* character; a long literal of the source (a canned response, a fixed     *)
(* error message, a label) is one token holding the literal.  A text that  *)
(* travels through the translation service is a record [lang, s]: s is the *)
(* content and lang the language it is currently written in.               *)
(***************************************************************************)
EXTENDS Integers, Sequences, FiniteSets, TLC

(***************************************************************************)
(* Bounds of the model.                                                    *)
(***************************************************************************)
\* A question is a base phrase followed by 0..MaxPad further words.
MaxPad == 5
\* The document store holds at most MaxDocs chunks.
MaxDocs == 2

\* A generated answer given to clean_text alone has at most MaxAnswerLen characters.
MaxAnswerLen == 6

(***************************************************************************)
(* Program constants.                                                      *)
(***************************************************************************)
\* chat_bot.py:75 and :100, len(question_lower.split()) <= 5
MaxSmallTalkTokens == 5
\* chat_bot.py:135, str(root_err)[:200]
ErrDetailLen == 200
\* config.py:20, k_retrieval
k_retrieval == 5
\* chat_bot.py:189, max_tokens=512
max_tokens == 512

(***************************************************************************)
(* str helpers (Python built-ins used by the handler).                     *)
(***************************************************************************)
Whitespace == {" ", "\n", "\t"}

UpperCase ==
  <<"A", "B", "C", "D", "E", "F", "G", "H", "I", "J", "K", "L", "M",
    "N", "O", "P", "Q", "R", "S", "T", "U", "V", "W", "X", "Y", "Z">>

LowerCase ==
  <<"a", "b", "c", "d", "e", "f", "g", "h", "i", "j", "k", "l", "m",
    "n", "o", "p", "q", "r", "s", "t", "u", "v", "w", "x", "y", "z">>

\* str.lower() on one character
UpperToLower ==
  [c \in {UpperCase[i] : i \in 1..Len(UpperCase)} |->
     LowerCase[CHOOSE i \in 1..Len(UpperCase) : UpperCase[i] = c]]

LowerChar(c) == IF c \in DOMAIN UpperToLower THEN UpperToLower[c] ELSE c

\* str.lower()
Lower(s) == [i \in 1..Len(s) |-> LowerChar(s[i])]

\* str.strip(): drop leading and trailing whitespace
Strip(s) ==
  LET keep == {i \in 1..Len(s) : s[i] \notin Whitespace}
  IN  IF keep = {} THEN <<>>
      ELSE LET lo == CHOOSE i \in keep : \A j \in keep : i <= j
               hi == CHOOSE i \in keep : \A j \in keep : j <= i
           IN  SubSeq(s, lo, hi)

\* len(s.split()): the number of maximal runs of non-whitespace
TokenCount(s) ==
  Cardinality({i \in 1..Len(s) :
                 /\ s[i] \notin Whitespace
                 /\ (i = 1 \/ s[i-1] \in Whitespace)})

\* Python's  p in s  for strings
Contains(p, s) ==
  \E i \in 1..(Len(s) - Len(p) + 1) : SubSeq(s, i, i + Len(p) - 1) = p

\* any(pattern in s for pattern in patterns)
AnyIn(patterns, s) == \E p \in patterns : Contains(p, s)

\* str.replace(old, ""): delete the non-overlapping occurrences of old, left to right
RECURSIVE Remove(_, _)
Remove(s, old) ==
  IF Len(s) < Len(old) THEN s
  ELSE IF SubSeq(s, 1, Len(old)) = old
         THEN Remove(SubSeq(s, Len(old) + 1, Len(s)), old)
         ELSE <<s[1]>> \o Remove(Tail(s), old)

\* sep.join(parts)
RECURSIVE Join(_, _)
Join(sep, parts) ==
  IF parts = <<>> THEN <<>>
  ELSE IF Len(parts) = 1 THEN parts[1]
  ELSE parts[1] \o sep \o Join(sep, Tail(parts))

(***************************************************************************)
(* Pattern tables of ask_question.                                         *)
(***************************************************************************)
greeting_patterns == {
  <<"h", "i">>,
  <<"h", "e", "l", "l", "o">>,
  <<"h", "e", "y">>,
  <<"g", "r", "e", "e", "t", "i", "n", "g", "s">>,
  <<"g", "o", "o", "d", " ", "m", "o", "r", "n", "i", "n", "g">>,
  <<"g", "o", "o", "d", " ", "a", "f", "t", "e", "r", "n", "o", "o", "n">>,
  <<"g", "o", "o", "d", " ", "e", "v", "e", "n", "i", "n", "g">>,
  <<"h", "o", "w", "d", "y">>,
  <<"h", "o", "l", "a">>,
  <<"s", "a", "l", "u", "t">>,
  <<"n", "a", "m", "a", "s", "t", "e">>,
  <<"h", "o", "w", " ", "a", "r", "e", " ", "y", "o", "u">>,
  <<"h", "o", "w", " ", "r", " ", "u">>,
  <<"h", "o", "w", " ", "d", "o", " ", "y", "o", "u", " ", "d", "o">>,
  <<"w", "h", "a", "t", "'", "s", " ", "u", "p">>,
  <<"w", "h", "a", "t", "s", " ", "u", "p">>,
  <<"s", "u", "p">>,
  <<"w", "a", "s", "s", "u", "p">>,
  <<"h", "o", "w", "'", "s", " ", "i", "t", " ", "g", "o", "i", "n", "g">>,
  <<"h", "o", "w", "s", " ", "i", "t", " ", "g", "o", "i", "n", "g">> }

intro_patterns == {
  <<"w", "h", "o", " ", "a", "r", "e", " ", "y", "o", "u">>,
  <<"w", "h", "a", "t", " ", "a", "r", "e", " ", "y", "o", "u">>,
  <<"w", "h", "o", " ", "a", "m", " ", "i", " ", "t", "a", "l", "k", "i", "n", "g", " ", "t", "o">>,
  <<"w", "h", "a", "t", " ", "i", "s", " ", "y", "o", "u", "r", " ", "n", "a", "m", "e">>,
  <<"i", "n", "t", "r", "o", "d", "u", "c", "e", " ", "y", "o", "u", "r", "s", "e", "l", "f">>,
  <<"t", "e", "l", "l", " ", "m", "e", " ", "a", "b", "o", "u", "t", " ", "y", "o", "u", "r", "s", "e", "l", "f">> }

thanks_patterns == {
  <<"t", "h", "a", "n", "k">>,
  <<"t", "h", "a", "n", "k", "s">>,
  <<"t", "h", "x">>,
  <<"a", "p", "p", "r", "e", "c", "i", "a", "t", "e">> }

\* The canned responses and fixed messages, one token each.
greeting_response ==
  <<"Hello! I'm Nile Care AI Farm Advisory, your agricultural assistant. I'm here to help answer your farming questions, provide crop advice, discuss pest management, soil health, weather impacts, and more. How can I assist you today?">>

intro_response ==
  <<"I am Nile Care AI Farm Advisory, your trusted agricultural assistant. I'm designed to help farmers and agricultural professionals with farming-related queries, provide guidance on crop management, pest control, soil health, weather conditions, and offer tailored advice based on agricultural best practices. What would you like to know about farming?">>

thanks_response ==
  <<"You're welcome! Feel free to ask me anything about farming and agriculture.">>

insufficient_answer ==
  <<"I'm sorry, I don't have enough information to answer that question.">>

connectivity_detail ==
  <<"Unable to connect to the database. This may be due to network issues, IPv6 connectivity problems, or incorrect database credentials. For local development, consider setting up a local PostgreSQL instance. For Supabase, use the Connection Pooler host instead of the direct database host.">>

generic_detail_prefix == <<"Database error: ">>

placeholder_sources == <<"source1", "source2">>


(***************************************************************************)
(* Request inputs (AskRequest) and the values the collaborators return.    *)
(***************************************************************************)
\* AskRequest.lang, pattern ^(auto|en|am|om|so|ti)$
RequestLangs == {"auto", "en", "am", "om", "so", "ti"}

\* Languages the questions of the model are written in (what detection reports).
QuestionLangs == {"en", "am"}

lang_map(l) ==
  CASE l = "auto" -> "Auto"
    [] l = "en" -> "English"
    [] l = "am" -> "Amharic"
    [] l = "om" -> "Affan Oromo"
    [] l = "so" -> "Somali"
    [] l = "ti" -> "Tigrinya"
    [] OTHER -> "English"

QuestionBases == {
  <<" ", "H", "i", " ">>,
  <<"T", "h", "a", "n", "k", "s">>,
  <<"w", "h", "o", " ", "a", "r", "e", " ", "y", "o", "u">>,
  <<"c", "r", "o", "p">> }

PadWord == <<" ", "r", "u", "s", "t">>

RECURSIVE Repeat(_, _)
Repeat(w, k) == IF k = 0 THEN <<>> ELSE w \o Repeat(w, k - 1)

\* question: str, 2..200 characters
QuestionStrings ==
  {b \o Repeat(PadWord, k) : b \in QuestionBases, k \in 0..MaxPad}

\* location: Optional[str], default ""
Locations == {"", "Addis Ababa"}

\* latitude, longitude: Optional[float], default None.  None is <<>>, a number v is <<v>>.
None == <<>>
Latitudes == {None, <<0>>, <<9>>}
Longitudes == {None, <<0>>, <<38>>}

Requests ==
  [question : [lang : QuestionLangs, s : QuestionStrings],
   lang : RequestLangs,
   location : Locations,
   latitude : Latitudes,
   longitude : Longitudes]

\* Document.content of the stored chunks
ChunkTexts == {<<" ">>, <<"a">>}

RECURSIVE SeqsUpTo(_, _)
SeqsUpTo(S, n) ==
  IF n = 0 THEN {<<>>}
  ELSE LET shorter == SeqsUpTo(S, n - 1)
       IN  shorter \cup {Append(q, x) : q \in {r \in shorter : Len(r) = n - 1}, x \in S}

\* The store's chunks by ascending cosine distance to the query embedding.
StoreOrders == SeqsUpTo(ChunkTexts, MaxDocs)

\* str(root_err) of a SQLAlchemyError
LongError == [i \in 1..(ErrDetailLen + 10) |-> IF i = ErrDetailLen + 1 THEN "!" ELSE "x"]

StoreErrors == {
  <<"C", "o", "n", "n", "e", "c", "t", "i", "o", "n", " ", "r", "e", "f", "u", "s", "e", "d">>,
  <<"N", "e", "t", "w", "o", "r", "k", " ", "i", "s", " ", "u", "n", "r", "e", "a", "c", "h", "a", "b", "l", "e">>,
  <<"s", "y", "n", "t", "a", "x", " ", "e", "r", "r", "o", "r", " ", "a", "t", " ", "o", "r", " ", "n", "e", "a", "r">>,
  LongError }

\* Texts the chat completion returns (English, as the prompt demands)
ChatAnswers == {
  <<"o", "k">>,
  <<"*", "*", "o", "k", "*", "*">>,
  <<">", ">", ">", ">", "o", "k">> }

WeatherReports == {<<"sunny 25C">>}

(***************************************************************************)
(* Texts and the translation service.                                      *)
(***************************************************************************)
NoText == [lang |-> "-", s |-> <<>>]

English(s) == [lang |-> "en", s |-> s]

\* The characters of a text as the handler's string operations see them.  The
\* non-English questions of the model are Amharic: Ge'ez script, no Latin letter,
\* words separated by whitespace.
Visible(t) ==
  IF t.lang = "en" THEN t.s
  ELSE [i \in 1..Len(t.s) |-> IF t.s[i] \in Whitespace THEN t.s[i] ELSE "#"]

\* detect_language(text) -> language code
detect_language(t) == t.lang

\* translate(text, src_lang, dest_lang) -> text: the identity when src = dest; a
\* text in the language src names comes back in dest; with a src that does not
\* name the text's language the service may translate or hand the text back.
translate(t, src, dest) ==
  IF src = dest THEN {t}
  ELSE IF src = t.lang THEN {[t EXCEPT !.lang = dest]}
  ELSE {t, [t EXCEPT !.lang = dest]}

(***************************************************************************)
(* The decisions of ask_question.                                          *)
(***************************************************************************)
\* chat_bot.py:56
NeedsQuestionTranslation(question_lang) == question_lang # "en"

\* chat_bot.py:57
SrcLang(lang, question_lang) == IF lang # "auto" THEN lang ELSE question_lang

\* chat_bot.py:61
QuestionLower(english_question) == Strip(Lower(Visible(english_question)))

\* chat_bot.py:75
IsGreeting(question_lower) ==
  /\ AnyIn(greeting_patterns, question_lower)
  /\ TokenCount(question_lower) <= MaxSmallTalkTokens

\* chat_bot.py:87
IsIntro(question_lower) == AnyIn(intro_patterns, question_lower)

\* chat_bot.py:100
IsThanks(question_lower) ==
  /\ AnyIn(thanks_patterns, question_lower)
  /\ TokenCount(question_lower) <= MaxSmallTalkTokens

\* faulty variant of the next definition: the requested language alone decides
CannedTranslationByLangOnly(lang, question_lang) == lang # "en"

\* chat_bot.py:82, :95, :102
NeedsCannedTranslation(lang, question_lang) ==
  lang # "en" /\ question_lang # "en"

\* faulty variant of the next definition: the error text is not lower-cased
IsConnectivityErrorCaseSensitive(root_err) ==
  \/ Contains(<<"n", "e", "t", "w", "o", "r", "k", " ", "i", "s", " ", "u", "n", "r", "e", "a", "c", "h", "a", "b", "l", "e">>, root_err)
  \/ Contains(<<"c", "o", "n", "n", "e", "c", "t", "i", "o", "n">>, root_err)

\* chat_bot.py:119-122
IsConnectivityError(root_err) ==
  LET err_msg == Lower(root_err)
  IN  \/ Contains(<<"n", "e", "t", "w", "o", "r", "k", " ", "i", "s", " ", "u", "n", "r", "e", "a", "c", "h", "a", "b", "l", "e">>, err_msg)
      \/ Contains(<<"c", "o", "n", "n", "e", "c", "t", "i", "o", "n">>, err_msg)

\* chat_bot.py:123-136
ErrorDetail(root_err) ==
  IF IsConnectivityError(root_err)
    THEN connectivity_detail
    ELSE generic_detail_prefix
           \o SubSeq(root_err, 1, IF Len(root_err) < ErrDetailLen THEN Len(root_err) ELSE ErrDetailLen)

\* chat_bot.py:111-116, .limit(settings.k_retrieval)
Limit(docs) ==
  SubSeq(docs, 1, IF Len(docs) < k_retrieval THEN Len(docs) ELSE k_retrieval)

\* faulty variant of the next definition: the chunks are joined farthest first
BaseContextReversed(result) ==
  Join(<<"\n", "\n">>, [i \in 1..Len(result) |-> result[Len(result) + 1 - i]])

\* chat_bot.py:138
BaseContext(result) == Join(<<"\n", "\n">>, result)

\* faulty variant of the next definition: the context is compared with "" without strip()
IsBlankNoStrip(context) == context = <<>>

\* chat_bot.py:139
IsBlank(context) == Strip(context) = <<>>

\* chat_bot.py:144
HasLocation(location) == location # ""

\* chat_bot.py:148: truthiness of two Optional[float]
Truthy(x) == x # None /\ x[1] # 0

HasCoordinates(latitude, longitude) == Truthy(latitude) /\ Truthy(longitude)

\* chat_bot.py:146
LocationSection(location, weather_data) ==
  <<"\n", "\n", "Weather information for ", location, ":\n">> \o weather_data

\* chat_bot.py:150
CoordinateSection(latitude, longitude, weather_data) ==
  <<"\n", "\n", "Weather information for coordinates (", ToString(latitude[1]), ", ",
    ToString(longitude[1]), "):\n">>
    \o weather_data

\* chat_bot.py:35-42
clean_text(text) == Remove(Remove(text, <<"*", "*">>), <<">", ">", ">", ">">>)

\* faulty variant of the next definition: the answer is always sent to translation
AlwaysTranslateAnswer(lang, question_lang) == TRUE

\* chat_bot.py:193
NeedsAnswerTranslation(lang, question_lang) ==
  lang # "en" \/ question_lang # "en"

\* chat_bot.py:194, dest_lang=question_lang or "en"
AnswerDestLang(question_lang) == IF question_lang = "" THEN "en" ELSE question_lang

(***************************************************************************)
(* State.                                                                  *)
(***************************************************************************)
VARIABLES
  SessionLocal,      \* db.py: "None" when no database URL is configured, else "sessionmaker"
  session,           \* the request's db session: "none", "open", "closed"
  opens,             \* SessionLocal() calls made for the current request
  closes,            \* db.close() calls made for the current request
  pc,                \* where the current request stands
  request,           \* the AskRequest
  question_lang,     \* detected language
  english_question,  \* the question after normalisation
  intent,            \* "greeting", "intro", "thanks", "none"; "-" before classification
  result,            \* the retrieved Document.content values, nearest first
  context,           \* the assembled context
  weather_data,      \* the last weather report; <<>> is None
  answer,            \* the answer being built
  root_err,          \* str(root_err) of the store's SQLAlchemyError; <<>> when none was raised
  response,          \* what the request ended with
  calls              \* the collaborator calls of the current request, in order

vars ==
  <<SessionLocal, session, opens, closes, pc, request, question_lang, english_question,
    intent, result, context, weather_data, answer, root_err, response, calls>>

NoRequest ==
  [question |-> NoText, lang |-> "-", location |-> "", latitude |-> None, longitude |-> None]

NoResponse ==
  [kind |-> "none", status |-> 0, answer |-> NoText, sources |-> <<>>, detail |-> <<>>]

AskResponse(a, sources) ==
  [kind |-> "AskResponse", status |-> 200, answer |-> a, sources |-> sources, detail |-> <<>>]

HTTPException(status, detail) ==
  [kind |-> "HTTPException", status |-> status, answer |-> NoText, sources |-> <<>>,
   detail |-> detail]

UncaughtException(name) ==
  [kind |-> "Exception", status |-> 500, answer |-> NoText, sources |-> <<>>,
   detail |-> <<name>>]

Call(fn, line, arg, ok) == [fn |-> fn, line |-> line, arg |-> arg, ok |-> ok]

Init ==
  /\ SessionLocal \in {"None", "sessionmaker"}
  /\ session = "none"
  /\ opens = 0
  /\ closes = 0
  /\ pc = "idle"
  /\ request = NoRequest
  /\ question_lang = "-"
  /\ english_question = NoText
  /\ intent = "-"
  /\ result = <<>>
  /\ context = <<>>
  /\ weather_data = None
  /\ answer = NoText
  /\ root_err = <<>>
  /\ response = NoResponse
  /\ calls = <<>>

(***************************************************************************)
(* How the handler ends.                                                   *)
(***************************************************************************)
\* faulty variant of the next definition: a missing return, the handler goes on to retrieval
FallThrough(a, sources) ==
  /\ pc' = "embed"
  /\ response' = response

\* return AskResponse(answer=..., sources=...)
ReturnResponse(a, sources) ==
  /\ pc' = "returned"
  /\ response' = AskResponse(a, sources)

\* faulty variant of the next definition: the failure is caught and an answer is returned
SwallowFailure(name) ==
  /\ pc' = "returned"
  /\ response' = AskResponse(English(<<>>), <<>>)

\* An exception of an awaited collaborator: nothing in ask_question catches it.
Propagate(name) ==
  /\ pc' = "raised"
  /\ response' = UncaughtException(name)

\* raise HTTPException(status_code=..., detail=...)
RaiseHTTP(status, detail) ==
  /\ pc' = "raised"
  /\ response' = HTTPException(status, detail)

(***************************************************************************)
(* A request arrives: FastAPI resolves Depends(get_db), then runs the      *)
(* handler.                                                                *)
(***************************************************************************)
Arrive(R) ==
  /\ pc = "idle"
  /\ \E r \in R :
       /\ request' = r
       /\ question_lang' = "-"
       /\ intent' = "-"
       /\ result' = <<>>
       /\ context' = <<>>
       /\ weather_data' = None
       /\ answer' = NoText
       /\ root_err' = <<>>
       /\ calls' = <<>>
       /\ closes' = 0
       /\ IF SessionLocal = "None"
            THEN /\ pc' = "done"
                 /\ response' = UncaughtException("RuntimeError")
                 /\ session' = "none"
                 /\ opens' = 0
                 /\ english_question' = NoText
            ELSE /\ pc' = "detect"
                 /\ response' = NoResponse
                 /\ session' = "open"
                 /\ opens' = 1
                 /\ english_question' = r.question
  /\ UNCHANGED SessionLocal

Receive == Arrive(Requests)

(***************************************************************************)
(* ask_question, one action per awaited call (and one for the synchronous  *)
(* intent classification).                                                 *)
(***************************************************************************)
Db == <<SessionLocal, session, opens, closes>>

Retrieved == <<result, context, root_err>>

\* chat_bot.py:54-57
DetectLanguage ==
  /\ pc = "detect"
  /\ \E ok \in BOOLEAN :
       /\ calls' = Append(calls, Call("detect_language", 54, <<english_question>>, ok))
       /\ IF ok
            THEN /\ question_lang' = detect_language(english_question)
                 /\ pc' = IF NeedsQuestionTranslation(question_lang')
                            THEN "translate_q" ELSE "classify"
                 /\ UNCHANGED response
            ELSE /\ Propagate("detect_language")
                 /\ UNCHANGED question_lang
  /\ UNCHANGED <<Db, request, english_question, intent, Retrieved, weather_data, answer>>

\* chat_bot.py:57-58
TranslateQuestion ==
  /\ pc = "translate_q"
  /\ LET src_lang == SrcLang(request.lang, question_lang)
     IN  \E ok \in BOOLEAN :
           /\ calls' = Append(calls,
                          Call("translate", 58, <<request.question, src_lang, "en">>, ok))
           /\ IF ok
                THEN /\ english_question' \in translate(request.question, src_lang, "en")
                     /\ pc' = "classify"
                     /\ UNCHANGED response
                ELSE /\ Propagate("translate")
                     /\ UNCHANGED english_question
  /\ UNCHANGED <<Db, request, question_lang, intent, Retrieved, weather_data, answer>>

\* The canned response of an intent and the line that translates it.
CannedResponse(i) ==
  CASE i = "greeting" -> greeting_response
    [] i = "intro" -> intro_response
    [] i = "thanks" -> thanks_response

CannedLine(i) ==
  CASE i = "greeting" -> 83
    [] i = "intro" -> 96
    [] i = "thanks" -> 103

\* chat_bot.py:75, :87, :100: the first test that matches decides
Intent(question_lower) ==
  IF IsGreeting(question_lower) THEN "greeting"
  ELSE IF IsIntro(question_lower) THEN "intro"
  ELSE IF IsThanks(question_lower) THEN "thanks"
  ELSE "none"

\* chat_bot.py:60-104
Classify ==
  /\ pc = "classify"
  /\ LET question_lower == QuestionLower(english_question)
         i == Intent(question_lower)
     IN  /\ intent' = i
         /\ IF i = "none"
              THEN /\ pc' = "embed"
                   /\ UNCHANGED <<answer, response>>
              ELSE /\ answer' = English(CannedResponse(i))
                   /\ IF NeedsCannedTranslation(request.lang, question_lang)
                        THEN /\ pc' = "translate_canned"
                             /\ UNCHANGED response
                        ELSE ReturnResponse(answer', <<>>)
  /\ UNCHANGED <<Db, request, question_lang, english_question, Retrieved,
                 weather_data, calls>>

\* chat_bot.py:83-84, :96-97, :103-104
TranslateCanned ==
  /\ pc = "translate_canned"
  /\ \E ok \in BOOLEAN :
       /\ calls' = Append(calls,
                      Call("translate", CannedLine(intent), <<answer, "en", question_lang>>, ok))
       /\ IF ok
            THEN /\ answer' \in translate(answer, "en", question_lang)
                 /\ ReturnResponse(answer', <<>>)
            ELSE /\ Propagate("translate")
                 /\ UNCHANGED answer
  /\ UNCHANGED <<Db, request, question_lang, english_question, intent, Retrieved,
                 weather_data>>

\* chat_bot.py:107
Embed ==
  /\ pc = "embed"
  /\ \E ok \in BOOLEAN :
       /\ calls' = Append(calls, Call("single_embed", 107, <<english_question>>, ok))
       /\ IF ok
            THEN /\ pc' = "query"
                 /\ UNCHANGED response
            ELSE Propagate("single_embed")
  /\ UNCHANGED <<Db, request, question_lang, english_question, intent, Retrieved,
                 weather_data, answer>>

\* chat_bot.py:143-150: the stage that follows the assembled context
AfterContext ==
  IF HasLocation(request.location) THEN "weather_loc"
  ELSE IF HasCoordinates(request.latitude, request.longitude) THEN "weather_coord"
  ELSE "chat"

\* chat_bot.py:110-140, the store answers
QueryOk ==
  /\ pc = "query"
  /\ \E docs \in StoreOrders :
       /\ calls' = Append(calls, Call("db.query", 112, <<k_retrieval>>, TRUE))
       /\ result' = Limit(docs)
       /\ context' = BaseContext(result')
       /\ IF IsBlank(context')
            THEN /\ answer' = English(insufficient_answer)
                 /\ ReturnResponse(answer', <<>>)
            ELSE /\ pc' = AfterContext
                 /\ UNCHANGED <<answer, response>>
  /\ UNCHANGED <<Db, request, question_lang, english_question, intent, weather_data,
                 root_err>>

\* chat_bot.py:117-136, the store raises SQLAlchemyError
QueryError ==
  /\ pc = "query"
  /\ \E e \in StoreErrors :
       /\ calls' = Append(calls, Call("db.query", 112, <<k_retrieval>>, FALSE))
       /\ root_err' = e
       /\ RaiseHTTP(503, ErrorDetail(e))
  /\ UNCHANGED <<Db, request, question_lang, english_question, intent, result, context,
                 weather_data, answer>>

\* chat_bot.py:144-146
WeatherLocation ==
  /\ pc = "weather_loc"
  /\ \E ok \in BOOLEAN :
       /\ calls' = Append(calls,
                      Call("get_weather", 145, <<request.location, None, None>>, ok))
       /\ IF ok
            THEN /\ weather_data' \in WeatherReports
                 /\ context' = context \o LocationSection(request.location, weather_data')
                 /\ pc' = IF HasCoordinates(request.latitude, request.longitude)
                            THEN "weather_coord" ELSE "chat"
                 /\ UNCHANGED response
            ELSE /\ Propagate("get_weather")
                 /\ UNCHANGED <<weather_data, context>>
  /\ UNCHANGED <<Db, request, question_lang, english_question, intent, result, root_err,
                 answer>>

\* chat_bot.py:148-150
WeatherCoordinates ==
  /\ pc = "weather_coord"
  /\ \E ok \in BOOLEAN :
       /\ calls' = Append(calls,
                      Call("get_weather", 149, <<"", request.latitude, request.longitude>>, ok))
       /\ IF ok
            THEN /\ weather_data' \in WeatherReports
                 /\ context' = context \o CoordinateSection(request.latitude,
                                                            request.longitude, weather_data')
                 /\ pc' = "chat"
                 /\ UNCHANGED response
            ELSE /\ Propagate("get_weather")
                 /\ UNCHANGED <<weather_data, context>>
  /\ UNCHANGED <<Db, request, question_lang, english_question, intent, result, root_err,
                 answer>>

\* chat_bot.py:178-187
Prompt ==
  [question |-> english_question,
   user_language |-> lang_map(request.lang),
   context |-> context,
   weather |-> IF weather_data # <<>> THEN weather_data ELSE <<"No weather data provided.">>]

\* chat_bot.py:189-202
ChatCompletion ==
  /\ pc = "chat"
  /\ \E ok \in BOOLEAN :
       /\ calls' = Append(calls, Call("chat_completion", 189, <<Prompt, max_tokens>>, ok))
       /\ IF ok
            THEN /\ \E generated \in ChatAnswers :
                      answer' = English(clean_text(generated))
                 /\ IF NeedsAnswerTranslation(request.lang, question_lang)
                      THEN /\ pc' = "translate_a"
                           /\ UNCHANGED response
                      ELSE ReturnResponse(answer', placeholder_sources)
            ELSE /\ Propagate("chat_completion")
                 /\ UNCHANGED answer
  /\ UNCHANGED <<Db, request, question_lang, english_question, intent, Retrieved,
                 weather_data>>

\* chat_bot.py:193-202
TranslateAnswer ==
  /\ pc = "translate_a"
  /\ LET dest_lang == AnswerDestLang(question_lang)
     IN  \E ok \in BOOLEAN :
           /\ calls' = Append(calls, Call("translate", 194, <<answer, "en", dest_lang>>, ok))
           /\ IF ok
                THEN /\ answer' \in translate(answer, "en", dest_lang)
                     /\ ReturnResponse(answer', placeholder_sources)
                ELSE /\ Propagate("translate")
                     /\ UNCHANGED answer
  /\ UNCHANGED <<Db, request, question_lang, english_question, intent, Retrieved,
                 weather_data>>

(***************************************************************************)
(* get_db's finally: the session is closed once the handler has returned   *)
(* or raised.                                                              *)
(***************************************************************************)
\* faulty variant of the next definition: db.close() follows the yield without try/finally
HandlerReturned(p) == p = "returned"

\* db.py:31-34
HandlerEnded(p) == p \in {"returned", "raised"}

CloseSession ==
  /\ HandlerEnded(pc)
  /\ session' = "closed"
  /\ closes' = closes + 1
  /\ pc' = "done"
  /\ UNCHANGED <<SessionLocal, opens, request, question_lang, english_question, intent,
                 Retrieved, weather_data, answer, response, calls>>

\* The response has been sent: the request and the handler's locals are dropped.
EndRequest ==
  /\ pc = "done"
  /\ pc' = "idle"
  /\ session' = "none"
  /\ opens' = 0
  /\ closes' = 0
  /\ request' = NoRequest
  /\ question_lang' = "-"
  /\ english_question' = NoText
  /\ intent' = "-"
  /\ result' = <<>>
  /\ context' = <<>>
  /\ weather_data' = None
  /\ answer' = NoText
  /\ root_err' = <<>>
  /\ response' = NoResponse
  /\ calls' = <<>>
  /\ UNCHANGED SessionLocal

HandlerStep ==
  \/ DetectLanguage
  \/ TranslateQuestion
  \/ Classify
  \/ TranslateCanned
  \/ Embed
  \/ QueryOk
  \/ QueryError
  \/ WeatherLocation
  \/ WeatherCoordinates
  \/ ChatCompletion
  \/ TranslateAnswer

Next ==
  \/ Receive
  \/ HandlerStep
  \/ CloseSession
  \/ EndRequest

Spec == Init /\ [][Next]_vars

\* The same server fed from a sample of the requests: a short greeting and a
\* farming question, in English and in Amharic, each with and without a location
\* and coordinates.
SampleRequests ==
  {r \in Requests :
     /\ r.question.s \in {<<" ", "H", "i", " ">>, <<"c", "r", "o", "p">>}
     /\ r.lang \in {"en", "am"}
     /\ r.latitude \in {None, <<9>>}
     /\ r.longitude = <<38>>}

ReceiveSample == Arrive(SampleRequests)

NextSample ==
  \/ ReceiveSample
  \/ HandlerStep
  \/ CloseSession
  \/ EndRequest

\* Every awaited call returns or raises, and the dependency's exit code runs.
FairSpec ==
  Init /\ [][NextSample]_vars /\ WF_vars(HandlerStep) /\ WF_vars(CloseSession)

(***************************************************************************)
(* Vocabulary of the properties.                                           *)
(***************************************************************************)
CallsOf(fn) == {i \in DOMAIN calls : calls[i].fn = fn}

CallsAt(lines) == {i \in DOMAIN calls : calls[i].line \in lines}

\* The call sites of translate: the question into English, a text out of English.
QuestionToEnglish == {58}
EnglishToRequester == {83, 96, 103, 194}

\* The language the requester reads: lang when it names one, else the detected one.
RequesterLang == IF request.lang = "auto" THEN question_lang ELSE request.lang

HandlerFinished == pc \in {"returned", "raised", "done"}

Responded == response.kind = "AskResponse"

\* The question the classifier saw holds a greeting pattern and at most 5 tokens.
GreetingCase ==
  /\ intent # "-"
  /\ LET normalized == Strip(Lower(Visible(english_question)))
     IN  /\ TokenCount(normalized) <= 5
         /\ \E p \in greeting_patterns : Contains(p, normalized)

(***************************************************************************)
(* C1 (amended): a question that holds a greeting pattern and at most 5    *)
(* tokens is answered with the canned greeting and sources = [], without   *)
(* any embedding, store query, weather or chat-completion call; the        *)
(* greeting is translated, into the detected language, exactly when both   *)
(* the requested and the detected language are not English (a failure of   *)
(* that translation ends the request with the error instead).              *)
(***************************************************************************)
C1_GreetingShortCircuit ==
  GreetingCase =>
    /\ \A i \in DOMAIN calls : calls[i].fn \in {"detect_language", "translate"}
    /\ CallsAt({96, 103, 194}) = {}
    /\ pc \in {"translate_canned", "returned", "raised", "done"}
    /\ HandlerFinished => response.kind \in {"AskResponse", "Exception"}
    /\ response.kind = "Exception" => /\ calls[Len(calls)].line = 83
                                      /\ ~calls[Len(calls)].ok
    /\ Responded =>
         /\ response.sources = <<>>
         /\ response.answer.s = greeting_response
         /\ (CallsAt({83}) # {}) <=> (request.lang # "en" /\ question_lang # "en")
         /\ \A i \in CallsAt({83}) :
              calls[i].arg = <<English(greeting_response), "en", question_lang>>

C1_Witness ==
  /\ GreetingCase
  /\ pc = "done"
  /\ Responded
  /\ request.lang = "am"
  /\ question_lang = "am"
  /\ response.answer = [lang |-> "am", s |-> greeting_response]

\* C1 as stated: the greeting is translated whenever the target language (lang,
\* or the detected language for lang "auto") is not English.
C1_TranslatedWheneverTargetNotEnglish ==
  (GreetingCase /\ Responded /\ RequesterLang # "en") => CallsAt({83}) # {}

(***************************************************************************)
(* C2: when the store query succeeds and every retrieved chunk is empty or *)
(* blank, the request returns exactly the fixed "not enough information"   *)
(* answer with sources = [], whatever lang, detected language, location    *)
(* and coordinates are, and no weather, chat-completion or answer-         *)
(* translation call is made.                                               *)
(***************************************************************************)
BlankRetrieval ==
  /\ \E i \in CallsOf("db.query") : calls[i].ok
  /\ \A d \in DOMAIN result : \A j \in DOMAIN result[d] : result[d][j] \in Whitespace

C2_InsufficientContext ==
  BlankRetrieval =>
    /\ pc \in {"returned", "done"}
    /\ response = AskResponse(English(insufficient_answer), <<>>)
    /\ CallsOf("get_weather") = {}
    /\ CallsOf("chat_completion") = {}
    /\ CallsAt({194}) = {}

C2_Witness ==
  /\ BlankRetrieval
  /\ pc = "done"
  /\ result = << <<" ">>, <<" ">> >>
  /\ request.lang = "am"
  /\ question_lang = "am"
  /\ request.location # ""
  /\ request.latitude = <<9>> /\ request.longitude = <<38>>
  /\ response.answer.s = insufficient_answer

(***************************************************************************)
(* C3: in one request translate is called at most once to bring the        *)
(* question into English and at most once to bring a text (canned response *)
(* or generated answer) out of English, on every path.                     *)
(***************************************************************************)
C3_AtMostOneTranslationPerDirection ==
  /\ Cardinality(CallsOf("translate") \cap CallsAt(QuestionToEnglish)) <= 1
  /\ Cardinality(CallsOf("translate") \cap CallsAt(EnglishToRequester)) <= 1

C3_Witness ==
  /\ pc = "done"
  /\ Responded
  /\ Cardinality(CallsAt(QuestionToEnglish)) = 1
  /\ Cardinality(CallsAt({194})) = 1
  /\ \A i \in CallsOf("translate") : calls[i].ok

(***************************************************************************)
(* C4: with lang = "en" and detected language "en" no translate call is    *)
(* made, on any path.                                                      *)
(***************************************************************************)
C4_NoTranslationWhenEnglish ==
  (request.lang = "en" /\ question_lang = "en") => CallsOf("translate") = {}

C4_Witness ==
  /\ pc = "done"
  /\ request.lang = "en"
  /\ question_lang = "en"
  /\ Responded
  /\ response.sources = placeholder_sources
  /\ CallsOf("translate") = {}

(***************************************************************************)
(* C5 (as stated): once the generation path has reached chat completion,   *)
(* latitude and longitude both supplied (not None, 0.0 included) mean that *)
(* the weather service was called with an empty location and those         *)
(* coordinates and that the coordinate section closes the context, after   *)
(* the location section when a location was given too.  The code tests the *)
(* truthiness of the two numbers, so a coordinate of 0.0 refutes it.       *)
(***************************************************************************)
ReachedGeneration == pc = "chat" \/ CallsOf("chat_completion") # {}

C5_CoordinateWeatherWheneverSupplied ==
  (ReachedGeneration /\ request.latitude # None /\ request.longitude # None) =>
    /\ \E i \in CallsAt({149}) :
         /\ calls[i].fn = "get_weather"
         /\ calls[i].arg = <<"", request.latitude, request.longitude>>
    /\ \E w1 \in WeatherReports, w2 \in WeatherReports :
         context =
           Join(<<"\n", "\n">>, result)
             \o (IF request.location # "" THEN LocationSection(request.location, w1) ELSE <<>>)
             \o CoordinateSection(request.latitude, request.longitude, w2)

(***************************************************************************)
(* C6: a store error ends the request with HTTP 503 and no AskResponse;    *)
(* the detail is the connectivity message exactly when the lower-cased     *)
(* error text holds "network is unreachable" or "connection", and          *)
(* otherwise "Database error: " followed by the first 200 characters of    *)
(* the error text at most.                                                 *)
(***************************************************************************)
StoreFailed == \E i \in CallsOf("db.query") : ~calls[i].ok

ConnectivityText(e) ==
  LET low == Lower(e)
  IN  \E p \in { <<"n", "e", "t", "w", "o", "r", "k", " ", "i", "s", " ", "u", "n", "r", "e", "a", "c", "h", "a", "b", "l", "e">>,
                 <<"c", "o", "n", "n", "e", "c", "t", "i", "o", "n">> } :
        \E i \in 1..Len(low) : i + Len(p) - 1 <= Len(low) /\ SubSeq(low, i, i + Len(p) - 1) = p

C6_StoreError503 ==
  StoreFailed =>
    /\ pc \in {"raised", "done"}
    /\ response.kind = "HTTPException"
    /\ response.status = 503
    /\ response.answer = NoText
    /\ ~calls[Len(calls)].ok /\ calls[Len(calls)].fn = "db.query"
    /\ IF ConnectivityText(root_err)
         THEN response.detail = connectivity_detail
         ELSE /\ response.detail[1] = "Database error: "
              /\ Len(response.detail) <= 1 + 200
              /\ \A k \in 2..Len(response.detail) : response.detail[k] = root_err[k - 1]
              /\ Len(response.detail) = 1 + 200 \/ Len(response.detail) = 1 + Len(root_err)

C6_Witness ==
  /\ StoreFailed
  /\ pc = "done"
  /\ root_err = <<"C", "o", "n", "n", "e", "c", "t", "i", "o", "n", " ", "r", "e", "f", "u", "s", "e", "d">>
  /\ response = HTTPException(503, connectivity_detail)

(***************************************************************************)
(* C7 (as stated): the question the classifier and the embedding service   *)
(* receive is in English: the raw question, untranslated, when English was *)
(* detected; otherwise the result of one translate call into English with  *)
(* src = the detected language for lang "auto" and the requested language  *)
(* otherwise.  With lang = "en" and a non-English question that call is    *)
(* translate(q, "en", "en"), the identity, which refutes it.               *)
(***************************************************************************)
C7_QuestionEnglishNormalized ==
  intent # "-" =>
    /\ question_lang = "en" =>
         /\ english_question = request.question
         /\ CallsAt(QuestionToEnglish) = {}
    /\ question_lang # "en" =>
         /\ Cardinality(CallsAt(QuestionToEnglish)) = 1
         /\ \A i \in CallsAt(QuestionToEnglish) :
              calls[i].arg = <<request.question,
                               IF request.lang = "auto" THEN question_lang ELSE request.lang,
                               "en">>
    /\ english_question.lang = "en"
    /\ \A i \in CallsOf("single_embed") : calls[i].arg[1].lang = "en"

(***************************************************************************)
(* C8 (as stated): on the generation path, with a non-English requested or *)
(* detected language, the cleaned answer is translated from English into   *)
(* the requester's language (lang when it names a language, the detected   *)
(* language for "auto") and returned in that language; with both English   *)
(* it is returned as it is.  The code always translates into the detected  *)
(* language, which refutes it.                                             *)
(***************************************************************************)
GeneratedResponse == Responded /\ CallsOf("chat_completion") # {}

C8_AnswerInRequesterLanguage ==
  GeneratedResponse =>
    IF request.lang # "en" \/ question_lang # "en"
      THEN /\ \A i \in CallsAt({194}) :
                /\ calls[i].arg[2] = "en"
                /\ calls[i].arg[3] = RequesterLang
           /\ Cardinality(CallsAt({194})) = 1
           /\ response.answer.lang = RequesterLang
      ELSE /\ CallsAt({194}) = {}
           /\ response.answer.lang = "en"

(***************************************************************************)
(* C9 (amended): while a database is configured, every /ask request        *)
(* acquires one session before the handler runs, the session stays open    *)
(* while the handler runs, and it is eventually closed, exactly once, on   *)
(* every exit path (return, HTTP 503, uncaught exception); no session is   *)
(* open once the request has ended.  With no database configured get_db    *)
(* raises, no session is acquired and the handler never runs.              *)
(***************************************************************************)
C9_SessionClosedOnEveryExit ==
  /\ [](SessionLocal # "None" /\ pc # "idle" => opens = 1)
  /\ [](pc \notin {"idle", "done"} => session = "open" /\ closes = 0)
  /\ [](pc = "done" /\ opens = 1 => session = "closed" /\ closes = 1)
  /\ [](pc \in {"idle", "done"} => session # "open")
  /\ [](SessionLocal = "None" => opens = 0 /\ session = "none" /\ calls = <<>>)
  /\ [](session = "open" => <>(session = "closed"))

C9_Witness ==
  /\ pc = "done"
  /\ response.kind = "Exception"
  /\ calls # <<>>
  /\ calls[Len(calls)].fn = "get_weather"
  /\ session = "closed"
  /\ opens = 1
  /\ closes = 1

\* C9 as stated: every request acquires one session.
C9_EveryRequestAcquiresSession == pc # "idle" => opens = 1

(***************************************************************************)
(* C10: a failed collaborator call (detect_language, translate,            *)
(* single_embed, get_weather, chat_completion) is the last call of its     *)
(* request: it is not retried and no later stage runs; the request ends    *)
(* with the exception and no AskResponse, so no answer goes out.           *)
(***************************************************************************)
C10_FailureEndsRequest ==
  \A i \in DOMAIN calls :
    (~calls[i].ok /\ calls[i].fn # "db.query") =>
      /\ i = Len(calls)
      /\ pc \in {"raised", "done"}
      /\ response = UncaughtException(calls[i].fn)

C10_Witness ==
  /\ pc = "done"
  /\ Len(calls) > 1
  /\ calls[Len(calls)].line = 194
  /\ ~calls[Len(calls)].ok
  /\ \A i \in 1..(Len(calls) - 1) : calls[i].ok
  /\ answer # NoText
  /\ response = UncaughtException("translate")

(***************************************************************************)
(* C11 (amended): when the store query succeeds with at least one          *)
(* non-blank chunk, the context starts with the retrieved chunk texts, in  *)
(* the order the store returned them (nearest first), joined by a blank    *)
(* line; chat completion is invoked at most once, with max_tokens = 512,   *)
(* after detection, embedding, the store query and every weather call of   *)
(* the request have returned, and only answer translation follows it.  It  *)
(* is invoked exactly once unless a weather call raises, which ends the    *)
(* request before generation.                                              *)
(***************************************************************************)
NonBlankRetrieval ==
  /\ \E i \in CallsOf("db.query") : calls[i].ok
  /\ \E d \in DOMAIN result : \E j \in DOMAIN result[d] : result[d][j] \notin Whitespace

WeatherFailed == \E i \in CallsOf("get_weather") : ~calls[i].ok

C11_GenerationOnceAfterRetrieval ==
  NonBlankRetrieval =>
    LET base == Join(<<"\n", "\n">>, result)
        chat == CallsOf("chat_completion")
    IN  /\ Len(context) >= Len(base)
        /\ SubSeq(context, 1, Len(base)) = base
        /\ Cardinality(chat) <= 1
        /\ \A i \in chat :
             /\ calls[i].arg[2] = 512
             /\ calls[i].arg[1].context = context
             /\ \A j \in 1..(i - 1) : calls[j].ok /\ calls[j].line \in {54, 58, 107, 112, 145, 149}
             /\ \A j \in (i + 1)..Len(calls) : calls[j].line = 194
             /\ \E j \in 1..(i - 1) : calls[j].fn = "single_embed"
             /\ \E j \in 1..(i - 1) : calls[j].fn = "db.query"
        /\ HandlerFinished => (Cardinality(chat) = 1 <=> ~WeatherFailed)
        /\ Responded => Cardinality(chat) = 1

C11_Witness ==
  /\ NonBlankRetrieval
  /\ pc = "done"
  /\ Responded
  /\ result = << <<"a">>, <<" ">> >>
  /\ Cardinality(CallsOf("get_weather")) = 2
  /\ Cardinality(CallsOf("chat_completion")) = 1
  /\ Cardinality(CallsAt({194})) = 1
  /\ SubSeq(context, 1, 4) = <<"a", "\n", "\n", " ">>

\* C11 as stated: every such request invokes chat completion exactly once.
C11_ChatCompletionExactlyOnce ==
  (NonBlankRetrieval /\ HandlerFinished) => Cardinality(CallsOf("chat_completion")) = 1

(***************************************************************************)
(* clean_text on its own: every text of at most MaxAnswerLen characters    *)
(* over the two marker characters and a letter is cleaned, and the result  *)
(* is cleaned once more.                                                   *)
(***************************************************************************)
GeneratedTexts == SeqsUpTo({"*", ">", "a"}, MaxAnswerLen)

CleanInit ==
  /\ SessionLocal = "sessionmaker"
  /\ session = "none"
  /\ opens = 0
  /\ closes = 0
  /\ pc = "generated"
  /\ request = NoRequest
  /\ question_lang = "-"
  /\ english_question = NoText
  /\ intent = "-"
  /\ result = <<>>
  /\ context = <<>>
  /\ weather_data = None
  /\ answer \in {English(t) : t \in GeneratedTexts}
  /\ root_err = <<>>
  /\ response = NoResponse
  /\ calls = <<>>

\* chat_bot.py:191, answer = clean_text(answer)
CleanAnswer ==
  /\ pc = "generated"
  /\ answer' = English(clean_text(answer.s))
  /\ pc' = "cleaned"
  /\ UNCHANGED <<Db, request, question_lang, english_question, intent, Retrieved,
                 weather_data, response, calls>>

\* clean_text applied to its own result; the response holds the second result
CleanAgain ==
  /\ pc = "cleaned"
  /\ response' = AskResponse(English(clean_text(answer.s)), placeholder_sources)
  /\ pc' = "cleaned_twice"
  /\ UNCHANGED <<Db, request, question_lang, english_question, intent, Retrieved,
                 weather_data, answer, calls>>

NextClean ==
  \/ CleanAnswer
  \/ CleanAgain

SpecClean == CleanInit /\ [][NextClean]_vars

(***************************************************************************)
(* C12 (as stated): the result of clean_text holds no "**" and no ">>>>",  *)
(* and cleaning it a second time changes nothing.  clean_text deletes "**" *)
(* first and ">>>>" second, so deleting ">>>>" between two stars leaves a  *)
(* new "**": the text *>>>>* refutes it.                                   *)
(***************************************************************************)
C12_CleanTextLeavesNoMarker ==
  /\ pc \in {"cleaned", "cleaned_twice"} =>
       /\ ~Contains(<<"*", "*">>, answer.s)
       /\ ~Contains(<<">", ">", ">", ">">>, answer.s)
  /\ pc = "cleaned_twice" => response.answer = answer

=============================================================================
